---- MODULE Spec2Model ----
(***************************************************************************)
(* Model of src/ml_service.py, class MealPlanningML: the dietary filter,   *)
(* the preference learner, the meal scorer, the plan generator with its    *)
(* weighted random selection, the nutrition balancer and the nutrition     *)
(* analyzer.                                                               *)
(*                                                                         *)
(* Numbers.  The service computes in Python floats (and numpy float64).    *)
(* Here every number that is not a plain integer is an exact rational      *)
(* <<numerator, denominator>> with a positive denominator, in lowest       *)
(* terms, so 0.3 is <<3, 10>>.  Rounding of the last bit is not modelled.  *)
(*                                                                         *)
(* Text.  A string that the code lower-cases or searches (an ingredient,   *)
(* a tag, a restriction name) is a sequence of one-character strings, so   *)
(* that lower() and the substring test "x in s" are computed.  A string    *)
(* that is only compared for equality (a meal name, a cuisine, a nutrient, *)
(* a difficulty) is a TLA+ string.                                         *)
(*                                                                         *)
(* Dicts.  A Python dict is a function; its keys are its DOMAIN, and       *)
(* d.get(k, default) is Get(d, k, default).  A meal is such a dict, so a   *)
(* meal may lack any field.                                                *)
(***************************************************************************)
EXTENDS Integers, Sequences, FiniteSets, TLC

VARIABLES
    \* generate_smart_meal_plan: arguments
    available_meals, meal_history, days, dietary_restrictions,
    \* generate_smart_meal_plan: position and locals
    pc, user_prefs, filtered_meals, recent_meals, meal_scores,
    selected_meals, used_meals, day,
    \* the last iteration's pool, draw and pick
    available_candidates, random_value, selected_meal,
    \* generate_smart_meal_plan: return value
    balanced_meals,
    \* a direct call of one method: its name and arguments, and its outcome
    call, ret

vars == << available_meals, meal_history, days, dietary_restrictions,
           pc, user_prefs, filtered_meals, recent_meals, meal_scores,
           selected_meals, used_meals, day,
           available_candidates, random_value, selected_meal,
           balanced_meals, call, ret >>

planVars == << available_meals, meal_history, days, dietary_restrictions,
               pc, user_prefs, filtered_meals, recent_meals, meal_scores,
               selected_meals, used_meals, day,
               available_candidates, random_value, selected_meal,
               balanced_meals >>

-----------------------------------------------------------------------------
(* Bounds of the model *)

MaxDays == 7
MaxCatalog == 3
MaxHist == 2
MaxPlanLen == 7
MaxRestrictions == 2

-----------------------------------------------------------------------------
(* Python built-ins *)

Get(d, k, default) == IF k \in DOMAIN d THEN d[k] ELSE default

Abs(x) == IF x < 0 THEN -x ELSE x

RECURSIVE GCD(_, _)
GCD(a, b) == IF b = 0 THEN a ELSE GCD(b, a % b)

\* the rational n/d (d # 0) in lowest terms with a positive denominator
Rat(n, d) ==
    LET s == IF d < 0 THEN -1 ELSE 1
        g == GCD(Abs(n), Abs(d))
    IN  << (s * n) \div g, (s * d) \div g >>

RInt(n) == << n, 1 >>
RAdd(a, b) == Rat(a[1] * b[2] + b[1] * a[2], a[2] * b[2])
RSub(a, b) == Rat(a[1] * b[2] - b[1] * a[2], a[2] * b[2])
RMul(a, b) == Rat(a[1] * b[1], a[2] * b[2])
RDiv(a, b) == Rat(a[1] * b[2], a[2] * b[1])
RAbs(a) == << Abs(a[1]), a[2] >>
RLess(a, b) == a[1] * b[2] < b[1] * a[2]
RLeq(a, b) == a[1] * b[2] <= b[1] * a[2]
\* max(a, b) and min(a, b) return the first argument unless the second is
\* strictly greater (smaller)
RMax(a, b) == IF RLess(a, b) THEN b ELSE a
RMin(a, b) == IF RLess(b, a) THEN b ELSE a

RECURSIVE SumInts(_)
SumInts(s) == IF s = << >> THEN 0 ELSE Head(s) + SumInts(Tail(s))

RECURSIVE SumRats(_)
SumRats(s) == IF s = << >> THEN RInt(0) ELSE RAdd(Head(s), SumRats(Tail(s)))

\* np.mean of a non-empty list of integers
Mean(s) == Rat(SumInts(s), Len(s))

\* np.mean of a non-empty list of rationals
MeanRats(s) == RDiv(SumRats(s), RInt(Len(s)))

Range(s) == { s[i] : i \in 1..Len(s) }

\* s[-n:]
LastN(s, n) == IF Len(s) <= n THEN s ELSE SubSeq(s, Len(s) - n + 1, Len(s))

\* s.index(x), 0-based, for x in s
Index(s, x) == (CHOOSE i \in 1..Len(s) : s[i] = x /\ \A j \in 1..(i - 1) : s[j] # x) - 1

UpperCase == << "A", "B", "C", "D", "E", "F", "G", "H", "I", "J", "K", "L", "M",
                "N", "O", "P", "Q", "R", "S", "T", "U", "V", "W", "X", "Y", "Z" >>
LowerCase == << "a", "b", "c", "d", "e", "f", "g", "h", "i", "j", "k", "l", "m",
                "n", "o", "p", "q", "r", "s", "t", "u", "v", "w", "x", "y", "z" >>

LowerChar(c) ==
    IF \E i \in 1..Len(UpperCase) : UpperCase[i] = c
    THEN LowerCase[CHOOSE i \in 1..Len(UpperCase) : UpperCase[i] = c]
    ELSE c

\* str.lower()
Lower(s) == [ i \in 1..Len(s) |-> LowerChar(s[i]) ]

\* sub in s, for strings
Contains(sub, s) ==
    \E i \in 0..(Len(s) - Len(sub)) : SubSeq(s, i + 1, i + Len(sub)) = sub

\* ' '.join(strs)
RECURSIVE Join(_)
Join(strs) ==
    IF strs = << >> THEN << >>
    ELSE IF Len(strs) = 1 THEN strs[1]
    ELSE strs[1] \o << " " >> \o Join(Tail(strs))

\* list.sort(key = score, reverse = True) on (item, score) pairs: stable, so
\* pairs of equal score keep their order
RECURSIVE InsertDesc(_, _)
InsertDesc(sorted, p) ==
    IF sorted = << >> THEN << p >>
    ELSE IF RLess(Head(sorted)[2], p[2]) THEN << p >> \o sorted
    ELSE << Head(sorted) >> \o InsertDesc(Tail(sorted), p)

RECURSIVE SortDesc(_)
SortDesc(pairs) ==
    IF pairs = << >> THEN << >>
    ELSE InsertDesc(SortDesc(SubSeq(pairs, 1, Len(pairs) - 1)), pairs[Len(pairs)])

-----------------------------------------------------------------------------
(* _meets_dietary_restrictions *)

s_vegetarian == << "v", "e", "g", "e", "t", "a", "r", "i", "a", "n" >>
s_vegan == << "v", "e", "g", "a", "n" >>
s_gluten_free == << "g", "l", "u", "t", "e", "n", "-", "f", "r", "e", "e" >>
s_dairy_free == << "d", "a", "i", "r", "y", "-", "f", "r", "e", "e" >>
s_low_carb == << "l", "o", "w", "-", "c", "a", "r", "b" >>
s_keto == << "k", "e", "t", "o" >>

MeatWords ==
    << << "c", "h", "i", "c", "k", "e", "n" >>,
       << "b", "e", "e", "f" >>,
       << "p", "o", "r", "k" >>,
       << "f", "i", "s", "h" >>,
       << "t", "u", "r", "k", "e", "y" >>,
       << "l", "a", "m", "b" >> >>

DairyWords ==
    << << "m", "i", "l", "k" >>,
       << "c", "h", "e", "e", "s", "e" >>,
       << "b", "u", "t", "t", "e", "r" >>,
       << "c", "r", "e", "a", "m" >>,
       << "y", "o", "g", "u", "r", "t" >> >>

VeganWords == DairyWords \o << << "e", "g", "g" >> >>

GlutenWords ==
    << << "w", "h", "e", "a", "t" >>,
       << "f", "l", "o", "u", "r" >>,
       << "b", "r", "e", "a", "d" >>,
       << "p", "a", "s", "t", "a" >>,
       << "b", "a", "r", "l", "e", "y" >>,
       << "r", "y", "e" >> >>

\* [tag.lower() for tag in meal.get('tags', [])]
meal_tags(meal) ==
    LET tags == Get(meal, "tags", << >>)
    IN  [ i \in 1..Len(tags) |-> Lower(tags[i]) ]

\* [ing.lower() for ing in meal.get('ingredients', [])]
meal_ingredients(meal) ==
    LET ings == Get(meal, "ingredients", << >>)
    IN  [ i \in 1..Len(ings) |-> Lower(ings[i]) ]

\* any(w in ' '.join(meal_ingredients) for w in words)
AnyWordIn(words, meal) ==
    \E i \in 1..Len(words) : Contains(words[i], Join(meal_ingredients(meal)))

\* the keys of restriction_checks
RestrictionNames ==
    { s_vegetarian, s_vegan, s_gluten_free, s_dairy_free, s_low_carb, s_keto }

\* restriction_checks[name](), for a key of the table
restriction_checks(name, meal) ==
    LET tags == Range(meal_tags(meal))
        nutrition == Get(meal, "nutrition", << >>)
    IN  CASE name = s_vegetarian ->
                s_vegetarian \in tags \/ ~AnyWordIn(MeatWords, meal)
          [] name = s_vegan ->
                s_vegan \in tags
                    \/ (s_vegetarian \in tags /\ ~AnyWordIn(VeganWords, meal))
          [] name = s_gluten_free ->
                s_gluten_free \in tags \/ ~AnyWordIn(GlutenWords, meal)
          [] name = s_dairy_free ->
                s_dairy_free \in tags \/ ~AnyWordIn(DairyWords, meal)
          [] name = s_low_carb ->
                Get(nutrition, "carbs", 50) < 30
          [] name = s_keto ->
                Get(nutrition, "carbs", 50) < 20
                    /\ Get(nutrition, "healthy_fats", 0) > 15

\* the loop over restrictions, from the i-th on: False at the first known
\* restriction whose check fails, True when the list is exhausted
RECURSIVE MeetsFrom(_, _, _)
MeetsFrom(meal, restrictions, i) ==
    IF i > Len(restrictions) THEN TRUE
    ELSE LET restriction_lower == Lower(restrictions[i])
         IN  IF restriction_lower \in RestrictionNames
                    /\ ~restriction_checks(restriction_lower, meal)
             THEN FALSE
             ELSE MeetsFrom(meal, restrictions, i + 1)

\* A slip of the loop: it returns the outcome of the first known restriction.
MeetsFirstKnownOnly(meal, restrictions) ==
    LET known == { i \in 1..Len(restrictions) :
                        Lower(restrictions[i]) \in RestrictionNames }
    IN  IF known = {} THEN TRUE
        ELSE LET i == CHOOSE k \in known : \A j \in known : k <= j
             IN  restriction_checks(Lower(restrictions[i]), meal)

meets_dietary_restrictions(meal, restrictions) ==
    MeetsFrom(meal, restrictions, 1)

-----------------------------------------------------------------------------
(* analyze_user_preferences, _default_preferences *)

EmptyDict == [ k \in {} |-> 0 ]

difficulty_mapping(difficulty) ==
    CASE difficulty = "easy" -> 1
      [] difficulty = "medium" -> 2
      [] difficulty = "hard" -> 3
      [] OTHER -> 2

default_preferences ==
    [ preferred_cuisines |-> [ c \in { "italian", "mexican", "american" } |-> 3 ],
      preferred_ingredients |-> EmptyDict,
      avg_prep_time |-> RInt(30),
      preferred_difficulty |-> RInt(2),
      variety_score |-> Rat(4, 5) ]

\* the rating of a history entry
rating_of(meal) == Get(meal, "rating", 3)

\* cuisine_scores: per cuisine, the sum of the ratings of its entries
cuisine_scores(history) ==
    LET cuisine_of(m) == Get(m, "cuisine", "unknown")
    IN  [ c \in { cuisine_of(history[i]) : i \in 1..Len(history) } |->
            SumInts([ i \in 1..Len(history) |->
                        IF cuisine_of(history[i]) = c
                        THEN rating_of(history[i]) ELSE 0 ]) ]

\* ingredient_scores: per lower-cased ingredient, the rating of the entry added
\* once for each time the entry lists it
ingredient_scores(history) ==
    LET times(m, g) == Cardinality({ j \in 1..Len(meal_ingredients(m)) :
                                        meal_ingredients(m)[j] = g })
    IN  [ g \in UNION { Range(meal_ingredients(history[i])) :
                            i \in 1..Len(history) } |->
            SumInts([ i \in 1..Len(history) |->
                        times(history[i], g) * rating_of(history[i]) ]) ]

analyze_user_preferences(history) ==
    IF history = << >> THEN default_preferences
    ELSE
      [ preferred_cuisines |-> cuisine_scores(history),
        preferred_ingredients |-> ingredient_scores(history),
        avg_prep_time |->
            Mean([ i \in 1..Len(history) |->
                        Get(history[i], "prepTime", 30) ]),
        preferred_difficulty |->
            Mean([ i \in 1..Len(history) |->
                        difficulty_mapping(Get(history[i], "difficulty", "medium")) ]),
        variety_score |->
            Rat(Cardinality({ Get(history[i], "name", "") :
                                i \in 1..Len(history) }),
                Len(history)) ]

-----------------------------------------------------------------------------
(* calculate_meal_score *)

\* cuisine_scores.get(cuisine, 2.5) / 5.0
cuisine_score(meal, prefs) ==
    LET cuisine == Get(meal, "cuisine", "unknown")
        scores == Get(prefs, "preferred_cuisines", EmptyDict)
    IN  IF cuisine \in DOMAIN scores
        THEN Rat(scores[cuisine], 5)
        ELSE Rat(1, 2)

\* np.mean(ingredient_ratings) / 5.0, and 0 for a meal without ingredients
ingredient_score(meal, prefs) ==
    LET ings == meal_ingredients(meal)
        scores == Get(prefs, "preferred_ingredients", EmptyDict)
    IN  IF ings = << >> THEN RInt(0)
        ELSE RDiv(MeanRats([ i \in 1..Len(ings) |->
                                IF ings[i] \in DOMAIN scores
                                THEN RInt(scores[ings[i]])
                                ELSE Rat(5, 2) ]),
                  RInt(5))

\* max(0, 1 - abs(prep_time - preferred_time) / preferred_time).  A preferred
\* time of 0 is a numpy float64 (the mean of the history's prep times): the
\* division gives inf, or nan for 0/0, with a warning and no exception, and
\* max(0, 1 - inf) and max(0, nan) are both 0.
time_score(meal, prefs) ==
    LET prep_time == RInt(Get(meal, "prepTime", 30))
        preferred_time == Get(prefs, "avg_prep_time", RInt(30))
    IN  IF preferred_time[1] = 0 THEN RInt(0)
        ELSE RMax(RInt(0),
                  RSub(RInt(1),
                       RDiv(RAbs(RSub(prep_time, preferred_time)), preferred_time)))

\* max(0, 1 - abs(meal_difficulty - preferred_difficulty) / 2)
difficulty_score(meal, prefs) ==
    LET meal_difficulty == RInt(difficulty_mapping(Get(meal, "difficulty", "medium")))
        preferred_difficulty == Get(prefs, "preferred_difficulty", RInt(2))
    IN  RMax(RInt(0),
             RSub(RInt(1),
                  RDiv(RAbs(RSub(meal_difficulty, preferred_difficulty)), RInt(2))))

\* variety_penalty * 0.15 for a meal whose name is in recent:
\* 0.5 * (1 - recent.index(meal_name) / len(recent)) * 0.15
variety_deduction(meal_name, recent) ==
    RMul(RMul(Rat(1, 2),
              RSub(RInt(1), Rat(Index(recent, meal_name), Len(recent)))),
         Rat(15, 100))

\* what the variety step adds to the score: the bonus or minus the deduction
variety_term(meal, recent) ==
    LET meal_name == Get(meal, "name", "")
    IN  IF meal_name \in Range(recent)
        THEN RSub(RInt(0), variety_deduction(meal_name, recent))
        ELSE Rat(15, 100)

\* score before the final clamp
raw_score(meal, prefs, recent) ==
    SumRats(<< RMul(cuisine_score(meal, prefs), Rat(3, 10)),
               RMul(ingredient_score(meal, prefs), Rat(25, 100)),
               RMul(time_score(meal, prefs), Rat(15, 100)),
               RMul(difficulty_score(meal, prefs), Rat(15, 100)),
               variety_term(meal, recent) >>)

\* A slip of the last line: the score is returned as accumulated.
NoClamp(score) == score

\* min(1.0, max(0.0, score))
Clamp(score) == RMin(RInt(1), RMax(RInt(0), score))

calculate_meal_score(meal, prefs, recent) ==
    Clamp(raw_score(meal, prefs, recent))

-----------------------------------------------------------------------------
(* _weighted_random_choice *)

\* A slip of the comparison: the draw must be strictly below the cumulative weight.
ReachedStrictly(draw, cumulative_weight) == RLess(draw, cumulative_weight)

\* random_value <= cumulative_weight
Reached(draw, cumulative_weight) == RLeq(draw, cumulative_weight)

\* the loop over the weights from the i-th on, cumulative_weight being the sum
\* of the first i weights, and the return after the loop
RECURSIVE ChoiceFrom(_, _, _, _, _)
ChoiceFrom(items, weights, draw, i, cumulative_weight) ==
    IF i > Len(weights)
    THEN IF items # << >> THEN items[Len(items)] ELSE << >>
    ELSE IF Reached(draw, cumulative_weight) THEN items[i]
    ELSE ChoiceFrom(items, weights, draw, i + 1,
                    IF i < Len(weights)
                    THEN RAdd(cumulative_weight, weights[i + 1])
                    ELSE cumulative_weight)

\* the item returned when random.uniform(0, total_weight) returns draw
weighted_random_choice(items, weights, draw) ==
    ChoiceFrom(items, weights, draw, 1,
               IF weights = << >> THEN RInt(0) ELSE weights[1])

\* the sum of the first i weights
CumulativeWeight(weights, i) == SumRats(SubSeq(weights, 1, i))

\* Values of random.uniform(0, total_weight): 0, every cumulative weight (the
\* last is total_weight) and a value inside every candidate's interval.  A
\* weight is at least 0.1, so 0.05 below a cumulative weight lies inside.
RandomDraws(weights) ==
    { RInt(0) }
        \cup { CumulativeWeight(weights, i) : i \in 1..Len(weights) }
        \cup { RSub(CumulativeWeight(weights, i), Rat(1, 20)) : i \in 1..Len(weights) }

-----------------------------------------------------------------------------
(* balance_nutrition_weekly *)

WeekLength == 7

Nutrients == << "protein", "carbs", "fiber", "healthy_fats", "vitamins", "minerals" >>

weekly_targets ==
    [ n \in Range(Nutrients) |->
        CASE n = "protein" -> 350
          [] n = "carbs" -> 1400
          [] n = "fiber" -> 175
          [] n = "healthy_fats" -> 280
          [] n = "vitamins" -> 100
          [] n = "minerals" -> 100 ]

\* nutrition_totals: every nutrient some meal lists, summed over the meals
nutrition_totals(meals) ==
    LET nutrition(i) == Get(meals[i], "nutrition", EmptyDict)
    IN  [ n \in UNION { DOMAIN nutrition(i) : i \in 1..Len(meals) } |->
            SumInts([ i \in 1..Len(meals) |-> Get(nutrition(i), n, 0) ]) ]

\* nutrition_gaps: max(0, target - current) per target nutrient
nutrition_gaps(meals) ==
    LET totals == nutrition_totals(meals)
    IN  [ n \in Range(Nutrients) |->
            LET gap == weekly_targets[n] - Get(totals, n, 0)
            IN  IF gap > 0 THEN gap ELSE 0 ]

nutrition_priority_score(meal, gaps) ==
    LET nutrition == Get(meal, "nutrition", EmptyDict)
    IN  SumRats([ k \in 1..Len(Nutrients) |->
                    LET n == Nutrients[k]
                    IN  IF gaps[n] > 0
                        THEN RMul(RInt(Get(nutrition, n, 0)),
                                  Rat(gaps[n], weekly_targets[n]))
                        ELSE RInt(0) ])

\* the first components of a list of pairs
Firsts(pairs) == [ i \in 1..Len(pairs) |-> pairs[i][1] ]

\* meals_with_scores, for the gaps given
meals_with_scores(meals, gaps) ==
    [ i \in 1..Len(meals) |-> << meals[i], nutrition_priority_score(meals[i], gaps) >> ]

\* A slip of the re-sort: a meal whose priority is 0 is dropped.
SortedDroppingZero(meals) ==
    Firsts(SelectSeq(SortDesc(meals_with_scores(meals, nutrition_gaps(meals))),
                     LAMBDA p : p[2] # RInt(0)))

\* the meals re-sorted by descending priority
SortedByPriority(meals) ==
    Firsts(SortDesc(meals_with_scores(meals, nutrition_gaps(meals))))

balance_nutrition_weekly(meals) ==
    IF Len(meals) < WeekLength THEN meals ELSE SortedByPriority(meals)

-----------------------------------------------------------------------------
(* analyze_nutrition_gaps *)

\* A slip of the threshold: anything below the recommendation is a gap.
IsGapBelowTarget(current, recommended) == current < recommended

\* current < recommended * 0.8.  The recommendations times 0.8 and times 1.2
\* are exact in floating point (280, 1120, 140, 224, 80; 420, 1680, 210,
\* 336, 120), so the comparisons are comparisons of integers.
IsGap(current, recommended) == current * 10 < recommended * 8

\* current > recommended * 1.2
IsExcess(current, recommended) == current * 10 > recommended * 12

\* ratio = current / recommended; 1 - abs(1 - ratio) if ratio <= 2 else 0
nutrient_balance_score(current, recommended) ==
    LET ratio == IF recommended > 0 THEN Rat(current, recommended) ELSE RInt(0)
    IN  IF RLeq(ratio, RInt(2))
        THEN RSub(RInt(1), RAbs(RSub(RInt(1), ratio)))
        ELSE RInt(0)

\* balance_scores: one score per target nutrient, in the order of the targets
balance_scores(meal_plan) ==
    [ k \in 1..Len(Nutrients) |->
        nutrient_balance_score(Get(nutrition_totals(meal_plan), Nutrients[k], 0),
                               weekly_targets[Nutrients[k]]) ]

analyze_nutrition_gaps(meal_plan) ==
    LET total_nutrition == nutrition_totals(meal_plan)
        current(n) == Get(total_nutrition, n, 0)
        gap_keys == { n \in Range(Nutrients) : IsGap(current(n), weekly_targets[n]) }
        excess_keys == { n \in Range(Nutrients) \ gap_keys :
                            IsExcess(current(n), weekly_targets[n]) }
    IN  [ current_totals |-> total_nutrition,
          recommendations |-> weekly_targets,
          gaps |-> [ n \in gap_keys |-> weekly_targets[n] - current(n) ],
          excesses |-> [ n \in excess_keys |-> current(n) - weekly_targets[n] ],
          balance_score |-> MeanRats(balance_scores(meal_plan)) ]

-----------------------------------------------------------------------------
(* Inputs *)

in_Vegetarian == << "V", "e", "g", "e", "t", "a", "r", "i", "a", "n" >>
in_VEGAN == << "V", "E", "G", "A", "N" >>
in_Vegan == << "V", "e", "g", "a", "n" >>
in_Gluten_Free == << "G", "l", "u", "t", "e", "n", "-", "F", "r", "e", "e" >>
in_Keto == << "K", "e", "t", "o" >>
in_paleo == << "p", "a", "l", "e", "o" >>
in_Tofu == << "T", "o", "f", "u" >>
in_broccoli == << "b", "r", "o", "c", "c", "o", "l", "i" >>
in_Chicken == << "C", "h", "i", "c", "k", "e", "n" >>
in_carrot == << "c", "a", "r", "r", "o", "t" >>
in_pasta == << "p", "a", "s", "t", "a" >>
in_Cheese == << "C", "h", "e", "e", "s", "e" >>
in_eggplant == << "e", "g", "g", "p", "l", "a", "n", "t" >>

TofuStirFry ==
    [ name |-> "Tofu Stir Fry", cuisine |-> "asian",
      tags |-> << in_Vegan, in_Vegetarian >>,
      ingredients |-> << in_Tofu, in_broccoli >>,
      prepTime |-> 20, difficulty |-> "easy",
      nutrition |-> [ protein |-> 20, carbs |-> 15, fiber |-> 8, healthy_fats |-> 18 ] ]

ChickenSoup ==
    [ name |-> "Chicken Soup", cuisine |-> "american",
      ingredients |-> << in_Chicken, in_carrot >>,
      prepTime |-> 45, difficulty |-> "medium",
      nutrition |-> [ protein |-> 30, carbs |-> 25, fiber |-> 3, sodium |-> 900 ] ]

CheesePasta ==
    [ name |-> "Cheese Pasta", cuisine |-> "italian",
      tags |-> << in_Vegetarian >>,
      ingredients |-> << in_pasta, in_Cheese >>,
      prepTime |-> 30, difficulty |-> "hard",
      nutrition |-> [ protein |-> 15, carbs |-> 60, healthy_fats |-> 12, vitamins |-> 5 ] ]

\* a second record named "Chicken Soup", without tags, ingredients or nutrition
BareSoup ==
    [ name |-> "Chicken Soup", cuisine |-> "american",
      prepTime |-> 60, difficulty |-> "hard" ]

EggplantBake ==
    [ name |-> "Eggplant Bake", tags |-> << in_Vegetarian >>,
      ingredients |-> << in_eggplant >> ]

MealUniverse == { TofuStirFry, ChickenSoup, CheesePasta, BareSoup }


\* history entries: a low rating, a prep time of 0, and a name alone
AteSoup ==
    [ name |-> "Chicken Soup", cuisine |-> "american", rating |-> 1,
      prepTime |-> 10, difficulty |-> "easy" ]

AteTofu ==
    [ name |-> "Tofu Stir Fry", cuisine |-> "asian", rating |-> 5,
      ingredients |-> << in_Tofu, in_broccoli >>,
      prepTime |-> 0, difficulty |-> "medium" ]

AtePasta == [ name |-> "Cheese Pasta" ]

HistoryUniverse == { AteSoup, AteTofu, AtePasta }

\* meals by their nutrition: 7 of the first total exactly 80% of the protein
\* and carbs targets and 120% of the fiber target, 7 of the second 120% of the
\* protein target, and the third lists no nutrition
Lean ==
    [ name |-> "Lean", nutrition |-> [ protein |-> 40, carbs |-> 160, fiber |-> 30 ] ]

Rich ==
    [ name |-> "Rich",
      nutrition |-> [ protein |-> 60, carbs |-> 300, healthy_fats |-> 90,
                      vitamins |-> 15, sodium |-> 500 ] ]

Plain == [ name |-> "Plain" ]

NutritionUniverse == { Lean, Rich, Plain }

RestrictionUniverse ==
    { in_Vegetarian, in_VEGAN, in_Gluten_Free, s_dairy_free, s_low_carb,
      in_Keto, in_paleo }

\* the sequences over S of length at most n
SeqsUpTo(S, n) == UNION { [ 1..k -> S ] : k \in 0..n }

\* the elements of q at the positions in I, in the order of q
SubList(q, I) ==
    LET upTo[k \in 0..Len(q)] ==
            IF k = 0 THEN << >>
            ELSE IF k \in I THEN Append(upTo[k - 1], q[k])
            ELSE upTo[k - 1]
    IN  upTo[Len(q)]

\* the sub-lists of q of length at most n
SubListsUpTo(q, n) ==
    { SubList(q, I) : I \in { J \in SUBSET (1..Len(q)) : Cardinality(J) <= n } }

\* catalogs: lists of distinct records, two of which share a name
AllMeals == << TofuStirFry, ChickenSoup, CheesePasta, BareSoup >>

Catalogs == SubListsUpTo(AllMeals, MaxCatalog)

PlanHistories == { << >>, << AteSoup >>, << AteTofu >> }

PlanRestrictions ==
    { << >>, << in_Gluten_Free, s_low_carb >>, << in_paleo, in_Keto >> }

DayCounts == 0..MaxDays

Histories == SeqsUpTo(HistoryUniverse, MaxHist)

RestrictionLists == SeqsUpTo(RestrictionUniverse, MaxRestrictions)

MealLists == SeqsUpTo(NutritionUniverse, MaxPlanLen)

-----------------------------------------------------------------------------
(* generate_smart_meal_plan *)

\* A slip of the filter: every meal is kept.
KeepAll(meals, restrictions) == meals

\* filtered_meals: the meals that meet the restrictions, in catalog order
filter_meals(meals, restrictions) ==
    SelectSeq(meals, LAMBDA meal : meets_dietary_restrictions(meal, restrictions))

\* [meal.get('name', '') for meal in meal_history[-14:]]
RecentWindow == 14

recent_names(history) ==
    LET last == LastN(history, RecentWindow)
    IN  [ i \in 1..Len(last) |-> Get(last[i], "name", "") ]

\* meal_scores: (meal, score) for every filtered meal, sorted by descending score
score_meals(meals, prefs, recent) ==
    SortDesc([ i \in 1..Len(meals) |->
                << meals[i], calculate_meal_score(meals[i], prefs, recent) >> ])

\* A slip of the pool: used names are not excluded.
PoolIgnoringUsed(scores, used) == [ pool |-> scores, used |-> used ]

\* A slip of the pool: no reset when every name is used.
PoolWithoutReset(scores, used) ==
    [ pool |-> SelectSeq(scores, LAMBDA p : Get(p[1], "name", "") \notin used),
      used |-> used ]

\* available_candidates and used_meals after the pool is formed: the scored
\* meals whose name is unused, or every scored meal and no used name when
\* none is left
candidate_pool(scores, used) ==
    LET unused == SelectSeq(scores, LAMBDA p : Get(p[1], "name", "") \notin used)
    IN  IF unused = << >>
        THEN [ pool |-> scores, used |-> {} ]
        ELSE [ pool |-> unused, used |-> used ]

\* weights = [score + 0.1 for _, score in available_candidates]
selection_weights(candidates) ==
    [ i \in 1..Len(candidates) |-> RAdd(candidates[i][2], Rat(1, 10)) ]

Init ==
    /\ available_meals \in Catalogs
    /\ meal_history \in PlanHistories
    /\ days \in DayCounts
    /\ dietary_restrictions \in PlanRestrictions
    /\ pc = "start"
    /\ user_prefs = EmptyDict
    /\ filtered_meals = << >>
    /\ recent_meals = << >>
    /\ meal_scores = << >>
    /\ selected_meals = << >>
    /\ used_meals = {}
    /\ day = 0
    /\ available_candidates = << >>
    /\ random_value = RInt(0)
    /\ selected_meal = << >>
    /\ balanced_meals = << >>
    /\ call = [ fn |-> "none" ]
    /\ ret = [ state |-> "none" ]

\* lines 184-212: learn the preferences, filter, return [] when nothing is
\* left, else score and sort
Prepare ==
    /\ pc = "start"
    /\ user_prefs' = analyze_user_preferences(meal_history)
    /\ filtered_meals' = filter_meals(available_meals, dietary_restrictions)
    /\ IF filtered_meals' = << >>
       THEN /\ pc' = "done"
            /\ balanced_meals' = << >>
            /\ UNCHANGED << recent_meals, meal_scores >>
       ELSE /\ pc' = "select"
            /\ recent_meals' = recent_names(meal_history)
            /\ meal_scores' = score_meals(filtered_meals', user_prefs', recent_meals')
            /\ UNCHANGED balanced_meals
    /\ selected_meals' = << >>
    /\ used_meals' = {}
    /\ day' = 0
    /\ UNCHANGED << available_meals, meal_history, days, dietary_restrictions,
                    available_candidates, random_value, selected_meal, call, ret >>

\* lines 214-231: one iteration of "for day in range(days)"
SelectMeal ==
    /\ pc = "select"
    /\ day < days
    /\ \E formed \in { candidate_pool(meal_scores, used_meals) } :
         IF formed.pool # << >>
         THEN \E weights \in { selection_weights(formed.pool) } :
              \E draw \in RandomDraws(weights) :
              \E chosen \in { weighted_random_choice(formed.pool, weights, draw) } :
                /\ available_candidates' = formed.pool
                /\ random_value' = draw
                /\ selected_meal' = chosen
                /\ selected_meals' = Append(selected_meals, chosen[1])
                /\ used_meals' = formed.used \cup { Get(chosen[1], "name", "") }
         ELSE /\ available_candidates' = formed.pool
              /\ used_meals' = formed.used
              /\ UNCHANGED << random_value, selected_meal, selected_meals >>
    /\ day' = day + 1
    /\ UNCHANGED << available_meals, meal_history, days, dietary_restrictions,
                    pc, user_prefs, filtered_meals, recent_meals, meal_scores,
                    balanced_meals, call, ret >>

\* lines 233-236: the loop is over; balance and return
Finish ==
    /\ pc = "select"
    /\ day >= days
    /\ balanced_meals' = balance_nutrition_weekly(selected_meals)
    /\ pc' = "done"
    /\ UNCHANGED << available_meals, meal_history, days, dietary_restrictions,
                    user_prefs, filtered_meals, recent_meals, meal_scores,
                    selected_meals, used_meals, day,
                    available_candidates, random_value, selected_meal, call, ret >>

Next == Prepare \/ SelectMeal \/ Finish

Spec == Init /\ [][Next]_vars

-----------------------------------------------------------------------------
(* A direct call of one method on drawn arguments *)

Idle ==
    /\ available_meals = << >>
    /\ meal_history = << >>
    /\ days = 0
    /\ dietary_restrictions = << >>
    /\ pc = "idle"
    /\ user_prefs = EmptyDict
    /\ filtered_meals = << >>
    /\ recent_meals = << >>
    /\ meal_scores = << >>
    /\ selected_meals = << >>
    /\ used_meals = {}
    /\ day = 0
    /\ available_candidates = << >>
    /\ random_value = RInt(0)
    /\ selected_meal = << >>
    /\ balanced_meals = << >>

\* the calls: the filter on a meal and a restriction list; the scorer on a
\* meal, the profile learned from one history and the recency window of
\* another; the balancer and the analyzer on a meal list
Calls ==
    [ fn : { "_meets_dietary_restrictions" },
      meal : MealUniverse \cup { EggplantBake },
      restrictions : RestrictionLists ]
    \cup
    [ fn : { "calculate_meal_score" },
      meal : MealUniverse,
      user_prefs : { analyze_user_preferences(h) : h \in Histories },
      recent_meals : { recent_names(h) : h \in Histories } ]
    \cup
    [ fn : { "balance_nutrition_weekly", "analyze_nutrition_gaps" },
      meals : MealLists ]

InitCalls ==
    /\ Idle
    /\ call \in Calls
    /\ ret = [ state |-> "pending" ]

CallMeets ==
    /\ call.fn = "_meets_dietary_restrictions"
    /\ ret.state = "pending"
    /\ ret' = [ state |-> "returned",
                value |-> meets_dietary_restrictions(call.meal, call.restrictions) ]
    /\ UNCHANGED << planVars, call >>

\* the returned score with the locals it is built from
CallScore ==
    /\ call.fn = "calculate_meal_score"
    /\ ret.state = "pending"
    /\ ret' = [ state |-> "returned",
                value |-> calculate_meal_score(call.meal, call.user_prefs,
                                               call.recent_meals),
                time_score |-> time_score(call.meal, call.user_prefs),
                variety |-> variety_term(call.meal, call.recent_meals),
                score |-> raw_score(call.meal, call.user_prefs, call.recent_meals) ]
    /\ UNCHANGED << planVars, call >>

CallBalance ==
    /\ call.fn = "balance_nutrition_weekly"
    /\ ret.state = "pending"
    /\ ret' = [ state |-> "returned", value |-> balance_nutrition_weekly(call.meals) ]
    /\ UNCHANGED << planVars, call >>

\* the returned report with the local balance_scores
CallAnalyze ==
    /\ call.fn = "analyze_nutrition_gaps"
    /\ ret.state = "pending"
    /\ ret' = [ state |-> "returned",
                value |-> analyze_nutrition_gaps(call.meals),
                balance_scores |-> balance_scores(call.meals) ]
    /\ UNCHANGED << planVars, call >>

NextCalls == CallMeets \/ CallScore \/ CallBalance \/ CallAnalyze

SpecCalls == InitCalls /\ [][NextCalls]_vars

-----------------------------------------------------------------------------
(* Properties *)

\* meal satisfies every restriction of the list that names a known check
PassesAll(meal, restrictions) ==
    \A i \in 1..Len(restrictions) :
        Lower(restrictions[i]) \in RestrictionNames
            => restriction_checks(Lower(restrictions[i]), meal)

NameOf(meal) == Get(meal, "name", "")

\* how many entries of the list q have the name nm
TimesNamed(q, nm) == Cardinality({ i \in 1..Len(q) : NameOf(q[i]) = nm })

\* how many entries of the list q equal x
Times(q, x) == Cardinality({ i \in 1..Len(q) : q[i] = x })

SomeMealPasses ==
    \E i \in 1..Len(available_meals) :
        PassesAll(available_meals[i], dietary_restrictions)

\* C1 as stated: the plan has exactly `days` meals whenever some catalog meal
\* passes the dietary filter, and it is empty if and only if none passes.
C1_ExactlyDaysAndEmptyIffNonePasses ==
    pc = "done" =>
        /\ SomeMealPasses => Len(balanced_meals) = days
        /\ balanced_meals = << >> <=> ~SomeMealPasses

\* C1 amended: the plan has exactly `days` meals whenever some catalog meal
\* passes the dietary filter, and it is empty if and only if no catalog meal
\* passes or days = 0.
C1_LengthIsDays ==
    pc = "done" =>
        /\ SomeMealPasses => Len(balanced_meals) = days
        /\ balanced_meals = << >> <=> (~SomeMealPasses \/ days = 0)

C1_Witness ==
    /\ pc = "done"
    /\ days = WeekLength
    /\ Len(balanced_meals) = WeekLength
    /\ Len(available_meals) = 2

\* C2: with k distinct names in the filtered catalog, the picks of each run
\* i*k+1 .. i*k+k have pairwise distinct names, used_meals holds exactly the
\* names picked in the current run (so it is emptied only when it held all k
\* names), and each filtered name occurs between floor(days/k) and
\* ceil(days/k) times in the returned plan, whatever the draws.
C2_NoRepeatBeforeExhaustion ==
    (pc \in { "select", "done" } /\ filtered_meals # << >>) =>
        LET names == { NameOf(filtered_meals[i]) : i \in 1..Len(filtered_meals) }
            k == Cardinality(names)
            n == Len(selected_meals)
        IN  /\ \A p, q \in 1..n :
                    (p < q /\ (p - 1) \div k = (q - 1) \div k)
                        => NameOf(selected_meals[p]) # NameOf(selected_meals[q])
            /\ n > 0 =>
                    used_meals = { NameOf(selected_meals[p]) :
                                        p \in (((n - 1) \div k) * k + 1)..n }
            /\ pc = "done" =>
                    \A nm \in names :
                        /\ TimesNamed(balanced_meals, nm) >= days \div k
                        /\ TimesNamed(balanced_meals, nm) <= (days + k - 1) \div k

C2_Witness ==
    /\ pc = "done"
    /\ days = WeekLength
    /\ Cardinality({ NameOf(filtered_meals[i]) : i \in 1..Len(filtered_meals) }) = 3
    /\ Len(balanced_meals) = WeekLength
    /\ TimesNamed(balanced_meals, "Tofu Stir Fry") = 3

\* C3: every meal picked, and every meal of the returned plan, is a meal of
\* the catalog that satisfies all of the requested dietary restrictions.
C3_PlanMealsPassFilter ==
    \A meal \in Range(selected_meals) \cup Range(balanced_meals) :
        /\ meal \in Range(available_meals)
        /\ PassesAll(meal, dietary_restrictions)

\* a rebalanced plan, picked across a reset of used_meals, from a catalog of
\* which the filter rejected a meal
C3_Witness ==
    /\ pc = "done"
    /\ Len(balanced_meals) >= WeekLength
    /\ balanced_meals # selected_meals
    /\ Len(filtered_meals) = 2
    /\ Len(available_meals) = 3
    /\ dietary_restrictions # << >>

\* pick is the first candidate of the pool whose cumulative weight cum[i], the
\* sum of the first i weights, meets or exceeds the draw, a value in
\* [0, total weight]
PickIsFirstReached(pool, cum, draw, pick) ==
    /\ RLeq(RInt(0), draw)
    /\ RLeq(draw, cum[Len(pool)])
    /\ \E i \in 1..Len(pool) :
            /\ pick = pool[i]
            /\ RLeq(draw, cum[i])
            /\ \A j \in 1..(i - 1) : RLess(cum[j], draw)

\* every candidate is returned for a draw of its own: its cumulative weight,
\* or the value 0.05 below it
EveryCandidateIsReturned(pool, weights, cum) ==
    \A i \in 1..Len(pool) :
        \E own \in { cum[i], RSub(cum[i], Rat(1, 20)) } :
            weighted_random_choice(pool, weights, own) = pool[i]

WeightsOf(pool) == [ i \in 1..Len(pool) |-> RAdd(pool[i][2], Rat(1, 10)) ]

RunningSums(weights) ==
    LET upTo[i \in 1..Len(weights)] ==
            IF i = 1 THEN weights[1] ELSE RAdd(upTo[i - 1], weights[i])
    IN  [ i \in 1..Len(weights) |-> upTo[i] ]

\* C10: the pick of an iteration is a member of the iteration's pool: the
\* first candidate, in pool order, whose cumulative weight (score + 0.1 each)
\* meets or exceeds the draw, a value in [0, total weight]; and every
\* candidate of the pool is returned for some draw.
C10_PickIsFirstReached ==
    (pc = "select" /\ selected_meal # << >>) =>
        /\ PickIsFirstReached(available_candidates,
                              RunningSums(WeightsOf(available_candidates)),
                              random_value, selected_meal)
        /\ EveryCandidateIsReturned(available_candidates,
                                    WeightsOf(available_candidates),
                                    RunningSums(WeightsOf(available_candidates)))

\* a candidate that scores 0, and is not the first of its pool, is picked
C10_Witness ==
    /\ selected_meal # << >>
    /\ Len(available_candidates) >= 2
    /\ selected_meal = available_candidates[Len(available_candidates)]
    /\ selected_meal[2] = RInt(0)

Called(fn) == call.fn = fn /\ ret.state = "returned"

\* C4: balance_nutrition_weekly returns a permutation of its input (every
\* meal as many times as in the input) for an input of length >= 7, and the
\* input itself, in the same order, for an input of length < 7.
C4_BalanceIsPermutation ==
    Called("balance_nutrition_weekly") =>
        IF Len(call.meals) >= 7
        THEN /\ Len(ret.value) = Len(call.meals)
             /\ \A m \in Range(call.meals) \cup Range(ret.value) :
                    Times(ret.value, m) = Times(call.meals, m)
        ELSE ret.value = call.meals

C4_Witness ==
    /\ Called("balance_nutrition_weekly")
    /\ Len(call.meals) >= 7
    /\ ret.value # call.meals
    /\ Plain \in Range(call.meals)

\* C5: the filter's answer on a list of restriction names is the conjunction
\* of its answers on the one-element lists of the names; the empty list, and
\* a list of one unknown name, are satisfied.
C5_FilterIsConjunctive ==
    Called("_meets_dietary_restrictions") =>
        /\ ret.value <=>
                \A i \in 1..Len(call.restrictions) :
                    meets_dietary_restrictions(call.meal, << call.restrictions[i] >>)
        /\ call.restrictions = << >> => ret.value
        /\ (Len(call.restrictions) = 1
                /\ Lower(call.restrictions[1]) \notin RestrictionNames) => ret.value

\* two known names, in mixed case: the meal meets the first and not the second
C5_Witness ==
    /\ Called("_meets_dietary_restrictions")
    /\ call.restrictions = << in_Vegetarian, in_VEGAN >>
    /\ call.meal = EggplantBake
    /\ ~ret.value

\* C6: calculate_meal_score returns a value in [0, 1].
C6_ScoreInUnitInterval ==
    Called("calculate_meal_score") =>
        RLeq(RInt(0), ret.value) /\ RLeq(ret.value, RInt(1))

\* summed ratings take the accumulated score above 1
C6_Witness ==
    /\ Called("calculate_meal_score")
    /\ RLess(RInt(1), ret.score)
    /\ ret.value = RInt(1)

\* the plan's total of a nutrient
TotalOf(meals, n) ==
    SumInts([ i \in 1..Len(meals) |-> Get(Get(meals[i], "nutrition", EmptyDict), n, 0) ])

\* C7: for each target nutrient the report holds a gap of target - current
\* exactly when current < 80% of the target, an excess of current - target
\* exactly when current > 120% of the target, and never both; a plan without
\* protein has a protein gap of 350 and a protein balance score of 0.
C7_GapsAndExcesses ==
    Called("analyze_nutrition_gaps") =>
        /\ \A k \in 1..Len(Nutrients) :
            LET n == Nutrients[k]
                target == weekly_targets[n]
                current == TotalOf(call.meals, n)
            IN  /\ n \in DOMAIN ret.value.gaps <=> 10 * current < 8 * target
                /\ n \in DOMAIN ret.value.gaps
                        => ret.value.gaps[n] = target - current
                /\ n \in DOMAIN ret.value.excesses <=> 10 * current > 12 * target
                /\ n \in DOMAIN ret.value.excesses
                        => ret.value.excesses[n] = current - target
                /\ ~(n \in DOMAIN ret.value.gaps /\ n \in DOMAIN ret.value.excesses)
        /\ TotalOf(call.meals, "protein") = 0 =>
                /\ "protein" \in DOMAIN ret.value.gaps
                /\ ret.value.gaps["protein"] = 350
                /\ ret.balance_scores[1] = RInt(0)

\* seven meals, none of which lists protein
C7_Witness ==
    /\ Called("analyze_nutrition_gaps")
    /\ Len(call.meals) = 7
    /\ TotalOf(call.meals, "protein") = 0
    /\ ret.value.gaps["protein"] = 350

\* C8 as stated: of the names in the recency window, one at an earlier
\* position is deducted no more than one at a later position, so the name at
\* the end of the window gets the largest deduction.
C8_LaterInWindowDeductedMore ==
    (Called("calculate_meal_score") /\ NameOf(call.meal) \in Range(call.recent_meals)) =>
        \A nm \in Range(call.recent_meals) :
            Index(call.recent_meals, NameOf(call.meal)) < Index(call.recent_meals, nm)
                => RLeq(RSub(RInt(0), ret.variety),
                        variety_deduction(nm, call.recent_meals))

\* C9 as stated: with a preferred prep time of 0 the prep-time term counts as
\* no penalty: the time score is 1, which adds the full 0.15.
C9_ZeroPrepTimeIsNoPenalty ==
    (Called("calculate_meal_score") /\ call.user_prefs.avg_prep_time = RInt(0)) =>
        ret.time_score = RInt(1)

====
